---- MODULE Spec2Model ----
(***************************************************************************)
(* A model of the telephony <-> speech-agent relay of src/main.py and of   *)
(* the booking tools of src/meeting_functions.py and src/database.py.      *)
(*                                                                         *)
(* One session (handle_media_stream) runs three relay tasks on one asyncio *)
(* event loop: twilio_receiver, sts_sender and sts_receiver.  An action of *)
(* the model is the code a task runs between two suspension points.        *)
(***************************************************************************)
EXTENDS Integers, Sequences, FiniteSets, TLC

VARIABLES
    hms_pc,          \* handle_media_stream: "connect", "gather", "except", "returned"
    sts_state,       \* agent connection: "none", "open", "peer_closed_ok", "peer_closed_err", "closed"
    twilio_state,    \* telephony socket: "open", "peer_gone", "closed"
    audio_queue,     \* asyncio.Queue of audio frames (main.py:176)
    streamsid_queue, \* asyncio.Queue of call-stream identifiers (main.py:177)
    inbuffer,        \* twilio_receiver's accumulation buffer (main.py:120)
    tw_pc,           \* twilio_receiver: "none", "recv", "done"
    snd_pc,          \* sts_sender: "none", "get", "send", "failed"
    snd_chunk,       \* sts_sender's local chunk (main.py:95)
    rcv_pc,          \* sts_receiver: "none", "wait_sid", "recv", "call", "handler",
                     \*   "respond", "err_respond", "done", "failed"
    rcv,             \* sts_receiver's locals (streamsid, message, loop index, func_name, ...)
    sts_sent,        \* history: the messages the agent connection accepted from send,
                     \*   in order, since sts_receiver last took a message
    twilio_sent,     \* history: the messages the telephony socket accepted from
                     \*   send_text, in order, since sts_receiver last took a message
    store,           \* rows of the bookings table, in insertion order
    calls,           \* per caller: the tool handler invocation in progress
    audio_put,       \* history: every frame ever put on audio_queue
    sid_put,         \* history: every item ever put on streamsid_queue
    n_in,            \* history: total decoded length of the inbound-track payloads
    tw_count,        \* history: telephony events received
    ag_count,        \* history: agent messages received
    rcv_log,         \* history: what sts_receiver did with its current message, in order
    proc_calls,      \* history: tool calls made by the other processes
    n_config,        \* history: configuration messages sent to the agent
    audio_sent,      \* history: every frame the agent connection accepted from sts_sender
    tw_last          \* history: the telephony message twilio_receiver took last

vars == <<hms_pc, sts_state, twilio_state, audio_queue, streamsid_queue, inbuffer,
          tw_pc, snd_pc, snd_chunk, rcv_pc, rcv, sts_sent, twilio_sent, store, calls,
          audio_put, sid_put, n_in, tw_count, ag_count, rcv_log, proc_calls,
          n_config, audio_sent, tw_last>>

hmsVars == <<hms_pc, n_config>>
sockVars == <<sts_state, twilio_state>>
twVars == <<inbuffer, tw_pc, audio_put, sid_put, n_in, tw_count, tw_last>>
sndVars == <<snd_pc, snd_chunk, audio_sent>>
rcvVars == <<rcv_pc, rcv, ag_count, rcv_log>>
dbVars == <<store, calls, proc_calls>>

(***************************************************************************)
(* Bounds of the model.                                                    *)
(***************************************************************************)
MaxFrameEvents == 5     \* telephony events per session in SpecFrames
MaxTwilioEvents == 2    \* telephony events per session in Spec
MaxAgentMsgs == 2       \* agent messages per session in Spec
MaxEntries == 2         \* function-call entries per FunctionCallRequest in SpecCalls
MaxCallMsgs == 2        \* agent messages per session in SpecCalls
MaxProcCalls == 3       \* tool calls of the other processes in SpecBooking

(***************************************************************************)
(* Byte strings.  A byte of the inbound audio stream is named by its       *)
(* offset in the concatenation of the inbound-track payloads, and a byte   *)
(* string is the sequence of maximal runs <<lo, hi>> (offsets lo..hi-1) it *)
(* is made of, so equal byte strings have equal representations.           *)
(***************************************************************************)
RECURSIVE BLen(_)
BLen(b) == IF b = <<>> THEN 0 ELSE (b[1][2] - b[1][1]) + BLen(Tail(b))

BCat(a, b) ==
    IF b = <<>> THEN a
    ELSE IF a = <<>> THEN b
    ELSE IF a[Len(a)][2] = b[1][1]
         THEN SubSeq(a, 1, Len(a) - 1) \o <<<<a[Len(a)][1], b[1][2]>>>> \o Tail(b)
         ELSE a \o b

\* b[:k]
RECURSIVE BTake(_, _)
BTake(b, k) ==
    IF k <= 0 \/ b = <<>> THEN <<>>
    ELSE LET n == b[1][2] - b[1][1] IN
         IF n <= k THEN BCat(<<b[1]>>, BTake(Tail(b), k - n))
         ELSE <<<<b[1][1], b[1][1] + k>>>>

\* b[k:]
RECURSIVE BDrop(_, _)
BDrop(b, k) ==
    IF b = <<>> THEN <<>>
    ELSE IF k <= 0 THEN b
    ELSE LET n == b[1][2] - b[1][1] IN
         IF n <= k THEN BDrop(Tail(b), k - n)
         ELSE <<<<b[1][1] + k, b[1][2]>>>> \o Tail(b)

\* the bytes of an inbound payload of length len arriving after n earlier bytes
Payload(n, len) == IF len = 0 THEN <<>> ELSE <<<<n, n + len>>>>

(***************************************************************************)
(* twilio_receiver (main.py:118-150).                                      *)
(***************************************************************************)
BUFFER_SIZE == 20 * 160

\* Rechunk with "if" for "while": at most one frame per event
RechunkOnce(buf) ==
    IF BLen(buf) >= BUFFER_SIZE
    THEN [frames |-> <<BTake(buf, BUFFER_SIZE)>>, rest |-> BDrop(buf, BUFFER_SIZE)]
    ELSE [frames |-> <<>>, rest |-> buf]

\* main.py:143-146: while len(inbuffer) >= BUFFER_SIZE: put a frame, keep the rest
RECURSIVE Rechunk(_)
Rechunk(buf) ==
    IF BLen(buf) >= BUFFER_SIZE
    THEN LET r == Rechunk(BDrop(buf, BUFFER_SIZE)) IN
         [frames |-> <<BTake(buf, BUFFER_SIZE)>> \o r.frames, rest |-> r.rest]
    ELSE [frames |-> <<>>, rest |-> buf]

\* A telephony text message: json_ok says whether json.loads accepts it; a has_x
\* flag says whether the decoded object has key x.
TwMsg(ev, sid, track, len) ==
    [json_ok |-> TRUE, has_event |-> TRUE, event |-> ev,
     has_start |-> ev = "start", has_sid |-> ev = "start", streamSid |-> sid,
     has_media |-> ev = "media", b64_ok |-> TRUE, has_track |-> ev = "media",
     track |-> track, len |-> len]

TwConnected == TwMsg("connected", "", "", 0)
TwStart(sid) == TwMsg("start", sid, "", 0)
TwMedia(track, len) == TwMsg("media", "", track, len)
TwStop == TwMsg("stop", "", "", 0)
TwMark == TwMsg("mark", "", "", 0)
TwNotJson == [TwConnected EXCEPT !.json_ok = FALSE]
TwNoEvent == [TwConnected EXCEPT !.has_event = FALSE]
TwStartNoSid == [TwStart("") EXCEPT !.has_sid = FALSE]
TwMediaNoTrack(len) == [TwMedia("", len) EXCEPT !.has_track = FALSE]
TwMediaBadPayload == [TwMedia("inbound", 0) EXCEPT !.b64_ok = FALSE]
NoTwMsg == TwMsg("", "", "", 0)     \* no message taken yet

\* What one pass of the loop body (main.py:124-146) does with message m:
\* raised (an exception leaves the loop), stop (break), the item published to
\* streamsid_queue, the bytes appended to inbuffer, and whether the re-chunking
\* loop of lines 143-146 is reached.
TwStep(m) ==
    LET quit == [raised |-> TRUE, stop |-> FALSE, sids |-> <<>>, add |-> 0, rechunk |-> FALSE]
        pass == [raised |-> FALSE, stop |-> FALSE, sids |-> <<>>, add |-> 0, rechunk |-> TRUE]
    IN  IF ~m.json_ok \/ ~m.has_event THEN quit
        ELSE IF m.event = "start"
             THEN IF m.has_start /\ m.has_sid
                  THEN [pass EXCEPT !.sids = <<m.streamSid>>]
                  ELSE quit
        ELSE IF m.event = "connected" THEN [pass EXCEPT !.rechunk = FALSE]
        ELSE IF m.event = "media"
             THEN IF ~m.has_media \/ ~m.b64_ok \/ ~m.has_track THEN quit
                  ELSE IF m.track = "inbound" THEN [pass EXCEPT !.add = m.len]
                  ELSE pass
        ELSE IF m.event = "stop" THEN [pass EXCEPT !.stop = TRUE, !.rechunk = FALSE]
        ELSE pass

\* twilio_receiver takes message m from receive_text and runs to the next await.
TwilioReceive(m) ==
    /\ tw_pc = "recv"
    /\ twilio_state = "open"
    /\ rcv_pc # "handler"
    /\ LET s == TwStep(m)
           buf == BCat(inbuffer, Payload(n_in, s.add))
           r == IF s.rechunk THEN Rechunk(buf) ELSE [frames |-> <<>>, rest |-> buf]
       IN  /\ tw_pc' = IF s.raised \/ s.stop THEN "done" ELSE "recv"
           /\ streamsid_queue' = streamsid_queue \o s.sids
           /\ sid_put' = sid_put \o s.sids
           /\ n_in' = n_in + s.add
           /\ inbuffer' = r.rest
           /\ audio_queue' = audio_queue \o r.frames
           /\ audio_put' = audio_put \o r.frames
    /\ tw_count' = tw_count + 1
    /\ tw_last' = m
    /\ UNCHANGED <<hmsVars, sockVars, sndVars, rcvVars, sts_sent, twilio_sent, dbVars>>

\* receive_text raises (WebSocketDisconnect after the peer left, or an error once the
\* socket was closed here): main.py:147-150 catch it and the task returns.
TwilioReceiveFails ==
    /\ tw_pc = "recv"
    /\ twilio_state # "open"
    /\ rcv_pc # "handler"
    /\ tw_pc' = "done"
    /\ UNCHANGED <<hmsVars, sockVars, audio_queue, streamsid_queue, inbuffer, audio_put,
                   sid_put, n_in, tw_count, tw_last, sndVars, rcvVars, sts_sent, twilio_sent,
                   dbVars>>

\* The telephony peer hangs up.
TwilioPeerGone ==
    /\ twilio_state = "open"
    /\ twilio_state' = "peer_gone"
    /\ UNCHANGED <<hmsVars, sts_state, audio_queue, streamsid_queue, twVars, sndVars,
                   rcvVars, sts_sent, twilio_sent, dbVars>>

(***************************************************************************)
(* Time strings.  A string is the tuple of its characters, and             *)
(* datetime.strptime(t, "%Y-%m-%d %H:%M") is modelled by what CPython does:*)
(* the format becomes the regular expression                               *)
(*   (\d\d\d\d)-(1[0-2]|0[1-9]|[1-9])-(3[01]|[12]\d|0[1-9]|[1-9]| [1-9])   *)
(*   \s+(2[0-3]|[0-1]\d|\d):([0-5]\d|\d)                                   *)
(* which must match the whole string, and the fields must form a date.     *)
(***************************************************************************)
Digits == {"0", "1", "2", "3", "4", "5", "6", "7", "8", "9"}
WhiteSpace == {" ", "\t"}

DigitVal(c) ==
    CASE c = "0" -> 0 [] c = "1" -> 1 [] c = "2" -> 2 [] c = "3" -> 3 [] c = "4" -> 4
      [] c = "5" -> 5 [] c = "6" -> 6 [] c = "7" -> 7 [] c = "8" -> 8 [] c = "9" -> 9
      [] OTHER -> 0

RECURSIVE NumVal(_)
NumVal(s) == IF s = <<>> THEN 0 ELSE NumVal(SubSeq(s, 1, Len(s) - 1)) * 10 + DigitVal(s[Len(s)])

AllIn(s, S) == \A i \in 1..Len(s) : s[i] \in S

\* int() of a matched field: a leading blank of the day field is skipped
FieldVal(s) == IF s # <<>> /\ s[1] = " " THEN NumVal(Tail(s)) ELSE NumVal(s)

MatchesY(s) == Len(s) = 4 /\ AllIn(s, Digits)
MatchesMonth(s) ==
    \/ Len(s) = 2 /\ s[1] = "1" /\ s[2] \in {"0", "1", "2"}
    \/ Len(s) = 2 /\ s[1] = "0" /\ s[2] \in Digits \ {"0"}
    \/ Len(s) = 1 /\ s[1] \in Digits \ {"0"}
MatchesDay(s) ==
    \/ Len(s) = 2 /\ s[1] = "3" /\ s[2] \in {"0", "1"}
    \/ Len(s) = 2 /\ s[1] \in {"1", "2"} /\ s[2] \in Digits
    \/ Len(s) = 2 /\ s[1] = "0" /\ s[2] \in Digits \ {"0"}
    \/ Len(s) = 1 /\ s[1] \in Digits \ {"0"}
    \/ Len(s) = 2 /\ s[1] = " " /\ s[2] \in Digits \ {"0"}
MatchesHour(s) ==
    \/ Len(s) = 2 /\ s[1] = "2" /\ s[2] \in {"0", "1", "2", "3"}
    \/ Len(s) = 2 /\ s[1] \in {"0", "1"} /\ s[2] \in Digits
    \/ Len(s) = 1 /\ s[1] \in Digits
MatchesMinute(s) ==
    \/ Len(s) = 2 /\ s[1] \in {"0", "1", "2", "3", "4", "5"} /\ s[2] \in Digits
    \/ Len(s) = 1 /\ s[1] \in Digits

IsLeap(y) == (y % 4 = 0 /\ y % 100 # 0) \/ y % 400 = 0
DaysInMonth(y, m) ==
    IF m = 2 THEN (IF IsLeap(y) THEN 29 ELSE 28)
    ELSE IF m \in {4, 6, 9, 11} THEN 30 ELSE 31

\* datetime(year, month, day, ...) accepts the fields
ValidDate(y, m, d) == y >= 1 /\ d >= 1 /\ d <= DaysInMonth(y, m)

\* TRUE iff datetime.strptime(t, "%Y-%m-%d %H:%M") returns (FALSE: ValueError)
StrptimeOk(t) ==
    \E lm \in 1..2, ld \in 1..2, lh \in 1..2, ln \in 1..2 :
        LET lw == Len(t) - (4 + 1 + lm + 1 + ld + lh + 1 + ln)
            pm == 6
            pd == pm + lm + 1
            pw == pd + ld
            ph == pw + lw
            pn == ph + lh + 1
        IN  /\ lw >= 1
            /\ MatchesY(SubSeq(t, 1, 4))
            /\ t[5] = "-"
            /\ MatchesMonth(SubSeq(t, pm, pm + lm - 1))
            /\ t[pd - 1] = "-"
            /\ MatchesDay(SubSeq(t, pd, pd + ld - 1))
            /\ AllIn(SubSeq(t, pw, pw + lw - 1), WhiteSpace)
            /\ MatchesHour(SubSeq(t, ph, ph + lh - 1))
            /\ t[pn - 1] = ":"
            /\ MatchesMinute(SubSeq(t, pn, pn + ln - 1))
            /\ ValidDate(NumVal(SubSeq(t, 1, 4)),
                         FieldVal(SubSeq(t, pm, pm + lm - 1)),
                         FieldVal(SubSeq(t, pd, pd + ld - 1)))

(***************************************************************************)
(* The booking store (database.py) and the tool handlers                   *)
(* (meeting_functions.py).  A message is its format string and the tuple   *)
(* of strings put into it.                                                 *)
(***************************************************************************)
Msg(fmt, arg) == [fmt |-> fmt, arg |-> arg]

NoResult == [none |-> TRUE]
FormatError == [error |-> Msg("Invalid time format. Please use YYYY-MM-DD HH:MM", <<>>)]
SlotTaken(t) == [error |-> Msg("Slot {} is already booked.", t)]
BookingConfirmed(id) ==
    [success |-> TRUE, booking_id |-> id, message |-> Msg("Booking confirmed.", <<>>)]
SlotAlreadyBooked == [success |-> FALSE, message |-> Msg("Slot already booked.", <<>>)]
Availability(t, free) ==
    [available |-> free,
     message |-> IF free THEN Msg("Slot {} is available.", t)
                 ELSE Msg("Slot {} is not available.", t)]

\* check_availability that finds every slot free
db_check_always_free(rows, t) == TRUE

\* check_availability that returns "row is not None"
db_check_inverted(rows, t) == \E i \in 1..Len(rows) : rows[i].booking_time = t

\* database.check_availability: no row has this booking_time
db_check_availability(rows, t) == \A i \in 1..Len(rows) : rows[i].booking_time # t

\* add_booking on a table without the UNIQUE constraint on booking_time
db_add_booking_no_unique(rows, name, t) ==
    [rows |-> Append(rows, [id |-> Len(rows) + 1, customer_name |-> name,
                            booking_time |-> t, status |-> "confirmed"]),
     result |-> BookingConfirmed(Len(rows) + 1)]

\* database.add_booking: the INSERT under the UNIQUE constraint of init_db; ids are
\* AUTOINCREMENT and no row is ever deleted
db_add_booking(rows, name, t) ==
    IF \E i \in 1..Len(rows) : rows[i].booking_time = t
    THEN [rows |-> rows, result |-> SlotAlreadyBooked]
    ELSE [rows |-> Append(rows, [id |-> Len(rows) + 1, customer_name |-> name,
                                 booking_time |-> t, status |-> "confirmed"]),
          result |-> BookingConfirmed(Len(rows) + 1)]

Procs == {"p1", "p2"}
Callers == {"session"} \cup Procs

IdleCall ==
    [pc |-> "idle", fn |-> "", customer_name |-> "", booking_time |-> <<>>,
     result |-> NoResult, exc |-> "", rows_at_entry |-> 0, ops |-> <<>>]

\* The call reaches the handler: book_meeting / check_availability validate the time
\* (meeting_functions.py:13-16, 29-32) before any store access; strptime raises
\* TypeError when the time is no string.
HandlerEnter(fn, name, t, t_is_str, rows) ==
    LET c == [IdleCall EXCEPT !.fn = fn, !.customer_name = name, !.booking_time = t,
                              !.rows_at_entry = Len(rows)]
    IN  IF ~t_is_str THEN [c EXCEPT !.pc = "raised", !.exc = "TypeError"]
        ELSE IF ~StrptimeOk(t) THEN [c EXCEPT !.pc = "ret", !.result = FormatError]
        ELSE [c EXCEPT !.pc = "check"]

\* meeting_functions.py:18-19 and 34-38: the existence check
DbCheck(c) ==
    /\ calls[c].pc = "check"
    /\ LET t == calls[c].booking_time
           free == db_check_availability(store, t)
       IN  /\ calls' = [calls EXCEPT ![c] =
                 IF calls[c].fn = "check_availability"
                 THEN [@ EXCEPT !.pc = "ret", !.result = Availability(t, free),
                                !.ops = Append(@, "check")]
                 ELSE IF free THEN [@ EXCEPT !.pc = "insert", !.ops = Append(@, "check")]
                 ELSE [@ EXCEPT !.pc = "ret", !.result = SlotTaken(t),
                                !.ops = Append(@, "check")]]
    /\ UNCHANGED <<hmsVars, sockVars, audio_queue, streamsid_queue, twVars, sndVars,
                   rcvVars, sts_sent, twilio_sent, store, proc_calls>>

\* meeting_functions.py:21-22: database.add_booking
DbInsert(c) ==
    /\ calls[c].pc = "insert"
    /\ LET r == db_add_booking(store, calls[c].customer_name, calls[c].booking_time)
       IN  /\ store' = r.rows
           /\ calls' = [calls EXCEPT ![c] = [@ EXCEPT !.pc = "ret", !.result = r.result,
                                                      !.ops = Append(@, "insert")]]
    /\ UNCHANGED <<hmsVars, sockVars, audio_queue, streamsid_queue, twVars, sndVars,
                   rcvVars, sts_sent, twilio_sent, proc_calls>>

(***************************************************************************)
(* Messages on the agent connection and the tool dispatch of main.py.      *)
(***************************************************************************)
Unset == "<unset>"     \* a local variable not yet bound ("x" in locals() is False)

JsonDumps(x) == [json |-> x]
B64Encode(x) == [b64 |-> x]

\* meeting_functions.py:40-43.  main.py:12 merges these with the handlers of
\* pharmacy_functions, a module that is not part of the source at hand; no message
\* of the model names one of them.
FUNCTION_MAP == {"book_meeting", "check_availability"}

\* the parameter names of a handler
Params(fn) ==
    IF fn = "book_meeting" THEN {"customer_name", "booking_time"}
    ELSE IF fn = "check_availability" THEN {"booking_time"}
    ELSE {}

\* the arguments of a function-call entry once json.loads has decoded them
Args(keys, name, t) ==
    [is_dict |-> TRUE, keys |-> keys, customer_name |-> name, booking_time |-> t,
     time_is_str |-> TRUE]

\* a function-call entry: has_x says whether the entry has key x, args_ok whether
\* json.loads accepts its arguments string
Entry(name, id, args) ==
    [has_name |-> TRUE, name |-> name, has_id |-> TRUE, id |-> id,
     has_arguments |-> TRUE, args_ok |-> TRUE, args |-> args]

\* an agent message: a text frame (JSON or not) or a binary audio frame
AgText(type, functions) ==
    [kind |-> "text", json_ok |-> TRUE, has_type |-> TRUE, type |-> type,
     has_functions |-> type = "FunctionCallRequest", functions |-> functions, audio |-> 0]
AgBinary(a) == [AgText("", <<>>) EXCEPT !.kind = "binary", !.audio = a]
AgNotJson == [AgText("", <<>>) EXCEPT !.json_ok = FALSE]
AgNoType == [AgText("", <<>>) EXCEPT !.has_type = FALSE]
AgNoFunctions == [AgText("FunctionCallRequest", <<>>) EXCEPT !.has_functions = FALSE]

ConfigMessage == [type |-> "<config>"]
BinaryMessage(chunk) == [type |-> "<binary>", data |-> chunk]

\* main.py:53-59
create_function_call_response(func_id, func_name, result) ==
    [type |-> "FunctionCallResponse", id |-> func_id, name |-> func_name,
     content |-> JsonDumps(result)]

\* execute_function_call that looks the name up without testing membership
execute_function_call_no_test(func_name, arguments) ==
    IF func_name \notin FUNCTION_MAP
    THEN [kind |-> "raise", exc |-> "KeyError", result |-> NoResult]
    ELSE IF ~arguments.is_dict \/ arguments.keys # Params(func_name)
    THEN [kind |-> "raise", exc |-> "TypeError", result |-> NoResult]
    ELSE [kind |-> "invoke", exc |-> "", result |-> NoResult]

\* main.py:43-51 up to the handler call: an unknown name gives the error object;
\* a known name is called with **arguments, which raises TypeError unless the
\* arguments are a mapping with exactly the handler's parameter names
execute_function_call(func_name, arguments) ==
    IF func_name \in FUNCTION_MAP
    THEN IF ~arguments.is_dict \/ arguments.keys # Params(func_name)
         THEN [kind |-> "raise", exc |-> "TypeError", result |-> NoResult]
         ELSE [kind |-> "invoke", exc |-> "", result |-> NoResult]
    ELSE [kind |-> "return", exc |-> "",
          result |-> [error |-> Msg("unknown function: {}", <<func_name>>)]]

\* main.py:64-70 for entry e, with the locals func_name and func_id as the previous
\* iteration left them
EntryStep(e, func_name, func_id) ==
    LET fail(n, i, x) ==
            [func_name |-> n, func_id |-> i, kind |-> "raise", exc |-> x, result |-> NoResult]
    IN  IF ~e.has_name THEN fail(func_name, func_id, "KeyError: 'name'")
        ELSE IF ~e.has_id THEN fail(e.name, func_id, "KeyError: 'id'")
        ELSE IF ~e.has_arguments THEN fail(e.name, e.id, "KeyError: 'arguments'")
        ELSE IF ~e.args_ok THEN fail(e.name, e.id, "JSONDecodeError")
        ELSE LET x == execute_function_call(e.name, e.args)
             IN  [func_name |-> e.name, func_id |-> e.id, kind |-> x.kind,
                  exc |-> x.exc, result |-> x.result]

\* handle_barge_in without the test of the message type
handle_barge_in_any_type(type, streamsid) == <<[event |-> "clear", streamSid |-> streamsid]>>

\* main.py:35-41: the messages handle_barge_in sends to the telephony socket
handle_barge_in(type, streamsid) ==
    IF type = "UserStartedSpeaking"
    THEN <<[event |-> "clear", streamSid |-> streamsid]>>
    ELSE <<>>

\* main.py:111-115
media_message(audio, streamsid) ==
    [event |-> "media", streamSid |-> streamsid, payload |-> B64Encode(audio)]

\* handle_text_message without the test of the type at main.py:89
MessageStepNoTypeTest(m, streamsid, twilio_open) ==
    LET out(fail, sent, req) == [fail |-> fail, sent |-> sent, request |-> req]
    IN  IF m.kind = "binary"
        THEN IF twilio_open THEN out(FALSE, <<media_message(m.audio, streamsid)>>, FALSE)
             ELSE out(TRUE, <<>>, FALSE)
        ELSE IF ~m.json_ok \/ ~m.has_type THEN out(TRUE, <<>>, FALSE)
        ELSE LET clear == handle_barge_in(m.type, streamsid)
             IN  IF clear # <<>> /\ ~twilio_open THEN out(TRUE, <<>>, FALSE)
                 ELSE out(FALSE, clear, TRUE)

\* main.py:102-116 for message m: the messages sent to the telephony socket, whether
\* an exception ends the task, and whether handle_function_call_request is entered
MessageStep(m, streamsid, twilio_open) ==
    LET out(fail, sent, req) == [fail |-> fail, sent |-> sent, request |-> req]
    IN  IF m.kind = "binary"
        THEN IF twilio_open THEN out(FALSE, <<media_message(m.audio, streamsid)>>, FALSE)
             ELSE out(TRUE, <<>>, FALSE)
        ELSE IF ~m.json_ok \/ ~m.has_type THEN out(TRUE, <<>>, FALSE)
        ELSE LET clear == handle_barge_in(m.type, streamsid)
             IN  IF clear # <<>> /\ ~twilio_open THEN out(TRUE, <<>>, FALSE)
                 ELSE out(FALSE, clear, m.type = "FunctionCallRequest")

InitRcv ==
    [streamsid |-> "", message |-> AgText("", <<>>), functions |-> <<>>, idx |-> 0,
     func_name |-> Unset, func_id |-> Unset, result |-> NoResult, exc |-> "", msg |-> 0]

(***************************************************************************)
(* sts_receiver (main.py:98-116) with handle_text_message and              *)
(* handle_function_call_request (main.py:61-90).                           *)
(***************************************************************************)
\* sts_receiver going on with no streamSid when the queue is still empty
RcvGetSidNoWait ==
    /\ rcv_pc = "wait_sid"
    /\ rcv' = [rcv EXCEPT !.streamsid =
                 IF streamsid_queue # <<>> THEN Head(streamsid_queue) ELSE ""]
    /\ streamsid_queue' = IF streamsid_queue # <<>> THEN Tail(streamsid_queue) ELSE <<>>
    /\ rcv_pc' = "recv"
    /\ UNCHANGED <<hmsVars, sockVars, audio_queue, twVars, sndVars, ag_count, rcv_log,
                   sts_sent, twilio_sent, dbVars>>

\* main.py:100
RcvGetSid ==
    /\ rcv_pc = "wait_sid"
    /\ streamsid_queue # <<>>
    /\ rcv' = [rcv EXCEPT !.streamsid = Head(streamsid_queue)]
    /\ streamsid_queue' = Tail(streamsid_queue)
    /\ rcv_pc' = "recv"
    /\ UNCHANGED <<hmsVars, sockVars, audio_queue, twVars, sndVars, ag_count, rcv_log,
                   sts_sent, twilio_sent, dbVars>>

\* the agent connection delivers message m to the async for of main.py:102
RcvMessage(m) ==
    /\ rcv_pc = "recv"
    /\ sts_state = "open"
    /\ ag_count' = ag_count + 1
    /\ LET s == MessageStep(m, rcv.streamsid, twilio_state = "open")
           n == ag_count + 1
       IN  /\ twilio_sent' = s.sent
           /\ sts_sent' = <<>>
           /\ rcv_log' = <<<<"message", n, 0>>>>
           /\ IF s.fail
              THEN rcv_pc' = "failed" /\ rcv' = [rcv EXCEPT !.msg = n, !.message = m]
              ELSE IF ~s.request
              THEN rcv_pc' = "recv" /\ rcv' = [rcv EXCEPT !.msg = n, !.message = m]
              ELSE IF ~m.has_functions
              THEN /\ rcv_pc' = "err_respond"
                   /\ rcv' = [rcv EXCEPT !.msg = n, !.message = m, !.functions = <<>>, !.idx = 0,
                                         !.func_name = Unset, !.func_id = Unset,
                                         !.exc = "KeyError: 'functions'"]
              ELSE /\ rcv_pc' = IF m.functions = <<>> THEN "recv" ELSE "call"
                   /\ rcv' = [rcv EXCEPT !.msg = n, !.message = m, !.functions = m.functions, !.idx = 1,
                                         !.func_name = Unset, !.func_id = Unset]
    /\ UNCHANGED <<hmsVars, sockVars, audio_queue, streamsid_queue, twVars, sndVars,
                   dbVars>>

\* main.py:63-70: one entry of the request, up to the handler's entry
RcvCall ==
    /\ rcv_pc = "call"
    /\ LET e == rcv.functions[rcv.idx]
           s == EntryStep(e, rcv.func_name, rcv.func_id)
           entered == <<"entry", rcv.msg, rcv.idx>>
       IN  /\ rcv' = [rcv EXCEPT !.func_name = s.func_name, !.func_id = s.func_id,
                                 !.exc = s.exc, !.result = s.result]
           /\ IF s.kind = "invoke"
              THEN /\ rcv_pc' = "handler"
                   /\ calls' = [calls EXCEPT !["session"] =
                         HandlerEnter(e.name, e.args.customer_name, e.args.booking_time,
                                      e.args.time_is_str, store)]
                   /\ rcv_log' = rcv_log \o <<entered, <<"invoke", rcv.msg, rcv.idx>>>>
              ELSE /\ rcv_pc' = IF s.kind = "raise" THEN "err_respond" ELSE "respond"
                   /\ calls' = calls
                   /\ rcv_log' = Append(rcv_log, entered)
    /\ UNCHANGED <<hmsVars, sockVars, audio_queue, streamsid_queue, twVars, sndVars,
                   ag_count, sts_sent, twilio_sent, store, proc_calls>>

\* the handler returns or raises into execute_function_call (main.py:45-47)
RcvHandlerReturn ==
    /\ rcv_pc = "handler"
    /\ calls["session"].pc \in {"ret", "raised"}
    /\ rcv' = [rcv EXCEPT !.result = calls["session"].result, !.exc = calls["session"].exc]
    /\ rcv_pc' = IF calls["session"].pc = "ret" THEN "respond" ELSE "err_respond"
    /\ calls' = [calls EXCEPT !["session"] = IdleCall]
    /\ UNCHANGED <<hmsVars, sockVars, audio_queue, streamsid_queue, twVars, sndVars,
                   ag_count, rcv_log, sts_sent, twilio_sent, store, proc_calls>>

\* the loop goes on to the next entry without awaiting the send of the response
RcvRespondNotAwaited ==
    /\ rcv_pc = "respond"
    /\ rcv_pc' = IF rcv.idx = Len(rcv.functions) THEN "recv" ELSE "call"
    /\ rcv' = [rcv EXCEPT !.idx = @ + 1]
    /\ UNCHANGED <<hmsVars, sockVars, audio_queue, streamsid_queue, twVars, sndVars,
                   ag_count, rcv_log, sts_sent, twilio_sent, dbVars>>

\* main.py:72-74: the response of the entry is sent; a failing send is caught at line 76
RcvRespond ==
    /\ rcv_pc = "respond"
    /\ IF sts_state = "open"
       THEN /\ sts_sent' = Append(sts_sent,
                   create_function_call_response(rcv.func_id, rcv.func_name, rcv.result))
            /\ rcv_log' = Append(rcv_log, <<"response", rcv.msg, rcv.idx>>)
            /\ rcv_pc' = IF rcv.idx = Len(rcv.functions) THEN "recv" ELSE "call"
            /\ rcv' = [rcv EXCEPT !.idx = @ + 1]
       ELSE /\ rcv_pc' = "err_respond"
            /\ rcv' = [rcv EXCEPT !.exc = "ConnectionClosed"]
            /\ UNCHANGED <<sts_sent, rcv_log>>
    /\ UNCHANGED <<hmsVars, sockVars, audio_queue, streamsid_queue, twVars, sndVars,
                   ag_count, twilio_sent, dbVars>>

\* main.py:76-83: the except branch sends one error response and the function returns
RcvErrRespond ==
    /\ rcv_pc = "err_respond"
    /\ IF sts_state = "open"
       THEN /\ sts_sent' = Append(sts_sent,
                   create_function_call_response(
                       IF rcv.func_id # Unset THEN rcv.func_id ELSE "unknown",
                       IF rcv.func_name # Unset THEN rcv.func_name ELSE "unknown",
                       [error |-> Msg("Function call failed with: {}", <<rcv.exc>>)]))
            /\ rcv_log' = Append(rcv_log, <<"error_response", rcv.msg, rcv.idx>>)
            /\ rcv_pc' = "recv"
       ELSE /\ rcv_pc' = "failed"
            /\ UNCHANGED <<sts_sent, rcv_log>>
    /\ UNCHANGED <<hmsVars, sockVars, audio_queue, streamsid_queue, twVars, sndVars,
                   rcv, ag_count, twilio_sent, dbVars>>

\* the async for of main.py:102 ends: normally after a clean close, with
\* ConnectionClosedError otherwise
RcvStreamEnds ==
    /\ rcv_pc = "recv"
    /\ sts_state \in {"peer_closed_ok", "peer_closed_err", "closed"}
    /\ rcv_pc' = IF sts_state = "peer_closed_err" THEN "failed" ELSE "done"
    /\ UNCHANGED <<hmsVars, sockVars, audio_queue, streamsid_queue, twVars, sndVars,
                   rcv, ag_count, rcv_log, sts_sent, twilio_sent, dbVars>>

\* The agent closes its connection, cleanly or not.
AgentClose(how) ==
    /\ sts_state = "open"
    /\ sts_state' = how
    /\ UNCHANGED <<hmsVars, twilio_state, audio_queue, streamsid_queue, twVars, sndVars,
                   rcvVars, sts_sent, twilio_sent, dbVars>>

(***************************************************************************)
(* sts_sender (main.py:92-96).                                             *)
(***************************************************************************)
\* sts_sender taking the newest frame of the queue instead of the oldest
SndGetNewest ==
    /\ snd_pc = "get"
    /\ rcv_pc # "handler"
    /\ audio_queue # <<>>
    /\ snd_chunk' = audio_queue[Len(audio_queue)]
    /\ audio_queue' = SubSeq(audio_queue, 1, Len(audio_queue) - 1)
    /\ snd_pc' = "send"
    /\ UNCHANGED <<hmsVars, sockVars, streamsid_queue, twVars, rcvVars, sts_sent,
                   twilio_sent, dbVars, audio_sent>>

\* main.py:95: chunk = await audio_queue.get()
SndGet ==
    /\ snd_pc = "get"
    /\ rcv_pc # "handler"
    /\ audio_queue # <<>>
    /\ snd_chunk' = Head(audio_queue)
    /\ audio_queue' = Tail(audio_queue)
    /\ snd_pc' = "send"
    /\ UNCHANGED <<hmsVars, sockVars, streamsid_queue, twVars, rcvVars, sts_sent,
                   twilio_sent, dbVars, audio_sent>>

\* main.py:96: await sts_ws.send(chunk); a failing send ends the task
SndSend ==
    /\ snd_pc = "send"
    /\ rcv_pc # "handler"
    /\ IF sts_state = "open"
       THEN /\ sts_sent' = Append(sts_sent, BinaryMessage(snd_chunk))
            /\ audio_sent' = Append(audio_sent, snd_chunk)
            /\ snd_pc' = "get"
       ELSE /\ UNCHANGED <<sts_sent, audio_sent>>
            /\ snd_pc' = "failed"
    /\ UNCHANGED <<hmsVars, sockVars, audio_queue, streamsid_queue, twVars, snd_chunk,
                   rcvVars, twilio_sent, dbVars>>

(***************************************************************************)
(* handle_media_stream (main.py:170-197).                                  *)
(***************************************************************************)
\* the tasks are gathered without the configuration having been sent
HmsConnectOkNoConfig ==
    /\ hms_pc = "connect"
    /\ hms_pc' = "gather"
    /\ sts_state' = "open"
    /\ tw_pc' = "recv"
    /\ snd_pc' = "get"
    /\ rcv_pc' = "wait_sid"
    /\ UNCHANGED <<n_config, sts_sent, twilio_state, audio_queue, streamsid_queue, inbuffer,
                   audio_put, sid_put, n_in, tw_count, tw_last, snd_chunk, audio_sent, rcv,
                   ag_count, rcv_log, twilio_sent, dbVars>>

\* main.py:180-190: connected, configuration sent, the three tasks gathered
HmsConnectOk ==
    /\ hms_pc = "connect"
    /\ hms_pc' = "gather"
    /\ sts_state' = "open"
    /\ sts_sent' = Append(sts_sent, ConfigMessage)
    /\ tw_pc' = "recv"
    /\ snd_pc' = "get"
    /\ rcv_pc' = "wait_sid"
    /\ n_config' = n_config + 1
    /\ UNCHANGED <<twilio_state, audio_queue, streamsid_queue, inbuffer, audio_put, sid_put,
                   n_in, tw_count, tw_last, snd_chunk, audio_sent, rcv, ag_count, rcv_log,
                   twilio_sent, dbVars>>

\* main.py:18-29, 180-183: no DEEPGRAM_API_KEY, the connection fails, or config.json
\* cannot be loaded after connecting
HmsConnectFails(why) ==
    /\ hms_pc = "connect"
    /\ hms_pc' = "except"
    /\ sts_state' = IF why = "config_error" THEN "closed" ELSE "none"
    /\ UNCHANGED <<n_config, twilio_state, audio_queue, streamsid_queue, twVars, sndVars, rcvVars,
                   sts_sent, twilio_sent, dbVars>>

\* main.py:186-191: gather re-raises the first exception of a task; the siblings are
\* left running; leaving the async with closes the agent connection
HmsGatherRaises ==
    /\ hms_pc = "gather"
    /\ rcv_pc # "handler"
    /\ snd_pc = "failed" \/ rcv_pc = "failed"
    /\ hms_pc' = "except"
    /\ sts_state' = "closed"
    /\ UNCHANGED <<n_config, twilio_state, audio_queue, streamsid_queue, twVars, sndVars, rcvVars,
                   sts_sent, twilio_sent, dbVars>>

\* an except branch that only logs the error
HmsExceptLogsOnly ==
    /\ hms_pc = "except"
    /\ rcv_pc # "handler"
    /\ hms_pc' = "returned"
    /\ UNCHANGED <<n_config, sockVars, audio_queue, streamsid_queue, twVars, sndVars, rcvVars,
                   sts_sent, twilio_sent, dbVars>>

\* main.py:192-197: websocket.close(), whose own failure is swallowed
HmsCloseTwilio ==
    /\ hms_pc = "except"
    /\ rcv_pc # "handler"
    /\ hms_pc' = "returned"
    /\ twilio_state' = IF twilio_state = "open" THEN "closed" ELSE twilio_state
    /\ UNCHANGED <<n_config, sts_state, audio_queue, streamsid_queue, twVars, sndVars, rcvVars,
                   sts_sent, twilio_sent, dbVars>>

(***************************************************************************)
(* Other processes that use the booking tools on the same store.           *)
(***************************************************************************)
\* process p calls book_meeting(name, t) or check_availability(t)
ProcCall(p, fn, name, t) ==
    /\ calls[p].pc = "idle"
    /\ calls' = [calls EXCEPT ![p] = HandlerEnter(fn, name, t, TRUE, store)]
    /\ proc_calls' = proc_calls + 1
    /\ UNCHANGED <<hmsVars, sockVars, audio_queue, streamsid_queue, twVars, sndVars,
                   rcvVars, sts_sent, twilio_sent, store>>

\* the call of process p has returned and p goes on
ProcReturn(p) ==
    /\ calls[p].pc = "ret"
    /\ calls' = [calls EXCEPT ![p] = IdleCall]
    /\ UNCHANGED <<hmsVars, sockVars, audio_queue, streamsid_queue, twVars, sndVars,
                   rcvVars, sts_sent, twilio_sent, store, proc_calls>>

(***************************************************************************)
(* Initial state: the telephony socket is accepted and the two queues exist *)
(* (main.py:173-177); the bookings table exists and is empty.              *)
(***************************************************************************)
Init ==
    /\ hms_pc = "connect"
    /\ sts_state = "none"
    /\ twilio_state = "open"
    /\ audio_queue = <<>>
    /\ streamsid_queue = <<>>
    /\ inbuffer = <<>>
    /\ tw_pc = "none"
    /\ snd_pc = "none"
    /\ snd_chunk = <<>>
    /\ rcv_pc = "none"
    /\ rcv = InitRcv
    /\ sts_sent = <<>>
    /\ twilio_sent = <<>>
    /\ store = <<>>
    /\ calls = [c \in Callers |-> IdleCall]
    /\ audio_put = <<>>
    /\ sid_put = <<>>
    /\ n_in = 0
    /\ tw_count = 0
    /\ ag_count = 0
    /\ rcv_log = <<>>
    /\ proc_calls = 0
    /\ n_config = 0
    /\ audio_sent = <<>>
    /\ tw_last = NoTwMsg

(***************************************************************************)
(* SpecFrames: twilio_receiver under every short sequence of telephony     *)
(* events.                                                                 *)
(***************************************************************************)
FrameEvents ==
    {TwConnected, TwStart("MZ1"), TwStart("MZ2"), TwStop, TwMark, TwNotJson, TwNoEvent,
     TwStartNoSid, TwMediaNoTrack(1000), TwMediaBadPayload, TwMedia("outbound", 3200)}
    \cup {TwMedia("inbound", n) : n \in {0, 300, 1000, 3200, 6500}}

NextFrames ==
    \/ HmsConnectOk
    \/ \E m \in FrameEvents : tw_count < MaxFrameEvents /\ TwilioReceive(m)
    \/ TwilioPeerGone
    \/ TwilioReceiveFails

SpecFrames == Init /\ [][NextFrames]_vars

\* C1: after every telephony event the number of frames put on the audio queue is
\* floor(N / 3200), N the total decoded length of the inbound-track payloads so far;
\* every frame put is exactly 3200 bytes long; and the accumulation buffer holds the
\* remaining N mod 3200 bytes, at most 3199.  This holds after stop and after a
\* disconnect too: the remainder is never put on the queue.
C1_FrameInvariant ==
    /\ Len(audio_put) = n_in \div BUFFER_SIZE
    /\ \A i \in 1..Len(audio_put) : BLen(audio_put[i]) = BUFFER_SIZE
    /\ BLen(inbuffer) <= BUFFER_SIZE - 1
    /\ BLen(inbuffer) = n_in % BUFFER_SIZE

\* the chunking scenario: four media events carrying 1000, 1000, 1000 and 300 bytes
\* have put one frame and left 100 bytes
C1_Scenario ==
    /\ tw_count = 4
    /\ n_in = 3300
    /\ Len(audio_put) = 1
    /\ BLen(inbuffer) = 100

\* C10: the stream-identifier channel never receives a second item, whatever the
\* sequence of telephony events.
C10_PublishedOnce == Len(sid_put) <= 1

(***************************************************************************)
(* Spec: one whole session.                                                *)
(***************************************************************************)
T_1000 == <<"2", "0", "2", "5", "-", "1", "2", "-", "2", "5", " ", "1", "0", ":", "0", "0">>
T_900 == <<"2", "0", "2", "5", "-", "1", "2", "-", "2", "5", " ", "9", ":", "0", "0">>
T_NotADate == <<"n", "o", "t", "-", "a", "-", "d", "a", "t", "e">>
T_Feb30 == <<"2", "0", "2", "5", "-", "0", "2", "-", "3", "0", " ", "1", "0", ":", "0", "0">>

EntryId(i) == IF i = 1 THEN "f1" ELSE IF i = 2 THEN "f2" ELSE "f3"

BookEntry(id) ==
    Entry("book_meeting", id, Args({"customer_name", "booking_time"}, "John Doe", T_1000))
CheckEntry(id) == Entry("check_availability", id, Args({"booking_time"}, "", T_1000))

\* the entries an agent may put at place i of a request
Entries(i) ==
    LET id == EntryId(i) IN
    {BookEntry(id), CheckEntry(id),
     Entry("no_such_function", id, Args({}, "", <<>>)),
     [BookEntry(id) EXCEPT !.args_ok = FALSE],
     Entry("book_meeting", id, Args({"booking_time"}, "", T_1000)),
     [CheckEntry(id) EXCEPT !.args.time_is_str = FALSE],
     [CheckEntry(id) EXCEPT !.has_name = FALSE],
     [CheckEntry(id) EXCEPT !.has_id = FALSE]}

Requests ==
    UNION {{f \in [1..n -> UNION {Entries(i) : i \in 1..n}] :
               \A i \in 1..n : f[i] \in Entries(i)} : n \in 0..MaxEntries}

PlainMessages ==
    {AgText("UserStartedSpeaking", <<>>), AgText("ConversationText", <<>>), AgBinary(1),
     AgNotJson, AgNoType, AgNoFunctions}

\* Spec: every kind of agent message, with one request of one entry
AgentMessages == PlainMessages \cup {AgText("FunctionCallRequest", <<BookEntry("f1")>>)}

\* SpecCalls: every request of at most MaxEntries entries
CallMessages == PlainMessages \cup {AgText("FunctionCallRequest", f) : f \in Requests}

SessionEvents ==
    {TwStart("MZ1"), TwStart("MZ2"), TwMedia("inbound", 3200), TwStop, TwNotJson}

\* the steps the session takes by itself, without a message from a peer
SessionStep ==
    \/ HmsConnectOk
    \/ \E why \in {"no_api_key", "connect_error", "config_error"} : HmsConnectFails(why)
    \/ HmsGatherRaises
    \/ HmsCloseTwilio
    \/ TwilioReceiveFails
    \/ SndGet
    \/ SndSend
    \/ RcvGetSid
    \/ RcvCall
    \/ DbCheck("session")
    \/ DbInsert("session")
    \/ RcvHandlerReturn
    \/ RcvRespond
    \/ RcvErrRespond
    \/ RcvStreamEnds

\* what the two peers do
PeerStep ==
    \/ \E m \in SessionEvents : tw_count < MaxTwilioEvents /\ TwilioReceive(m)
    \/ \E m \in AgentMessages : ag_count < MaxAgentMsgs /\ RcvMessage(m)
    \/ TwilioPeerGone
    \/ \E how \in {"peer_closed_ok", "peer_closed_err"} : AgentClose(how)

Next == SessionStep \/ PeerStep

Spec == Init /\ [][Next]_vars

\* The event loop runs every task that is ready: each task's own steps are weakly
\* fair.  Nothing is assumed of the peers, which may stay silent.
HmsStep ==
    \/ HmsConnectOk
    \/ \E why \in {"no_api_key", "connect_error", "config_error"} : HmsConnectFails(why)
    \/ HmsGatherRaises
    \/ HmsCloseTwilio
SenderStep == SndGet \/ SndSend
ReceiverStep ==
    \/ RcvGetSid
    \/ RcvCall
    \/ DbCheck("session")
    \/ DbInsert("session")
    \/ RcvHandlerReturn
    \/ RcvRespond
    \/ RcvErrRespond
    \/ RcvStreamEnds

FairSpec ==
    /\ Spec
    /\ WF_vars(HmsStep)
    /\ WF_vars(SenderStep)
    /\ WF_vars(ReceiverStep)
    /\ WF_vars(TwilioReceiveFails)

Terminated(pc) == pc \in {"done", "failed"}
AnyRelayTerminated == Terminated(tw_pc) \/ Terminated(snd_pc) \/ Terminated(rcv_pc)
TornDown ==
    /\ Terminated(tw_pc) /\ Terminated(snd_pc) /\ Terminated(rcv_pc)
    /\ sts_state # "open"
    /\ twilio_state # "open"

\* C2: once any one of the three relay tasks has terminated, the other two are
\* eventually terminated and both the agent connection and the telephony socket are
\* closed.
C2_FailOneCancelAll == AnyRelayTerminated ~> TornDown

Clears == SelectSeq(twilio_sent, LAMBDA x : x.event = "clear")
IsBargeIn(m) == m.kind = "text" /\ m.json_ok /\ m.has_type /\ m.type = "UserStartedSpeaking"

\* C9 as claimed: every UserStartedSpeaking message sts_receiver takes produces
\* exactly one clear event on the telephony socket, carrying the streamSid of the
\* session's start event, and no other message produces a clear event.
C9_OneClearPerBargeIn ==
    rcv.msg > 0 =>
        IF IsBargeIn(rcv.message)
        THEN Clears = <<[event |-> "clear", streamSid |-> sid_put[1]]>>
        ELSE Clears = <<>>

\* C9 as amended: a UserStartedSpeaking message taken while the telephony socket is
\* connected produces exactly one clear event, carrying the streamSid of the
\* session's first start event; taken after the socket was disconnected or closed it
\* produces none.  No other message produces a clear event.
C9_OneClearWhileConnected ==
    rcv.msg > 0 =>
        IF IsBargeIn(rcv.message)
        THEN \/ Clears = <<[event |-> "clear", streamSid |-> sid_put[1]]>>
             \/ Clears = <<>> /\ twilio_state # "open"
        ELSE Clears = <<>>

\* a barge-in answered with its clear event in a session that saw two start events
C9_BargeInCleared ==
    /\ IsBargeIn(rcv.message)
    /\ Len(sid_put) = 2
    /\ sid_put[1] # sid_put[2]
    /\ twilio_sent = <<[event |-> "clear", streamSid |-> sid_put[1]]>>

\* sts_connect raised (no key, or the connection failed): no agent connection exists
ConnectFailed == hms_pc \in {"except", "returned"} /\ sts_state = "none"

\* C11: when the agent connection cannot be established, none of the three relay
\* tasks is ever started, nothing is sent to the agent, and handle_media_stream
\* returns with the telephony socket closed.
C11_AbortBeforeRelay ==
    ConnectFailed =>
        /\ tw_pc = "none" /\ snd_pc = "none" /\ rcv_pc = "none"
        /\ n_config = 0 /\ sts_sent = <<>> /\ audio_sent = <<>>
        /\ audio_put = <<>> /\ sid_put = <<>> /\ ag_count = 0
        /\ hms_pc = "returned" => twilio_state # "open"

\* the session was aborted and the telephony socket closed by the server
C11_Aborted == ConnectFailed /\ hms_pc = "returned" /\ twilio_state = "closed"

MalformedTw(m) == ~m.json_ok \/ ~m.has_event
MalformedAg(m) == m.kind = "text" /\ (~m.json_ok \/ ~m.has_type)

\* C12: after a malformed message (not JSON, or without its type or event field) the
\* task that took it is at its read loop again: while the telephony socket is
\* connected twilio_receiver has not ended on such a message, and while the agent
\* connection is open sts_receiver has not ended on such a message.
C12_MalformedSkipped ==
    /\ tw_count > 0 /\ MalformedTw(tw_last) /\ twilio_state = "open" => tw_pc = "recv"
    /\ rcv.msg > 0 /\ MalformedAg(rcv.message) /\ sts_state = "open" => rcv_pc = "recv"

FatalError ==
    \/ sts_state \in {"peer_closed_ok", "peer_closed_err", "closed"}
    \/ twilio_state = "peer_gone"
    \/ snd_pc = "failed" \/ rcv_pc = "failed"
    \/ hms_pc = "except"

\* C13: after a fatal transport error on either socket or a configuration error,
\* handle_media_stream eventually returns with the telephony socket closed.
C13_TelephonyEventuallyClosed == FatalError ~> (hms_pc = "returned" /\ twilio_state # "open")

RECURSIVE BConcat(_)
BConcat(frames) == IF frames = <<>> THEN <<>> ELSE BCat(frames[1], BConcat(Tail(frames)))

\* the frame sts_sender holds between its get and its send
InFlight == IF snd_pc = "send" THEN <<snd_chunk>> ELSE <<>>

\* C15: the frames the agent accepted from sts_sender are a prefix of the frames
\* twilio_receiver put on the audio queue, each unchanged; until a send fails, the
\* frames put are exactly those sent, then the one in flight, then those queued; and
\* the bytes sent are the first bytes of the inbound stream, each once and in order.
C15_FramesInOrder ==
    /\ Len(audio_sent) <= Len(audio_put)
    /\ audio_sent = SubSeq(audio_put, 1, Len(audio_sent))
    /\ snd_pc # "failed" => audio_put = audio_sent \o InFlight \o audio_queue
    /\ BConcat(audio_sent) = Payload(0, BUFFER_SIZE * Len(audio_sent))
    /\ BUFFER_SIZE * Len(audio_sent) <= n_in

\* two frames were forwarded to the agent
C15_TwoFramesSent == Len(audio_sent) = 2 /\ audio_sent[1] # audio_sent[2]

\* C16: while a tool handler invoked by sts_receiver is executing, twilio_receiver can
\* take the next telephony message and sts_sender can take and forward frames.
C16_OthersNotBlocked ==
    rcv_pc = "handler" =>
        /\ tw_pc = "recv" /\ twilio_state = "open"
              => ENABLED TwilioReceive(TwMedia("inbound", BUFFER_SIZE))
        /\ snd_pc = "get" /\ audio_queue # <<>> => ENABLED SndGet
        /\ snd_pc = "send" => ENABLED SndSend

RelayStarted == tw_pc # "none" \/ snd_pc # "none" \/ rcv_pc # "none"
SentAfterConfig == audio_sent # <<>> \/ ag_count > 0

\* C17 as claimed: once the agent connection is established exactly one configuration
\* message has been sent, and no audio frame or response is sent before it.
C17_ExactlyOneConfig ==
    /\ sts_state # "none" => n_config = 1
    /\ SentAfterConfig => n_config = 1
    /\ rcv.msg = 0 /\ sts_sent # <<>> => sts_sent[1] = ConfigMessage

\* C17 as amended: at most one configuration message is sent; the relay tasks are
\* started only after it was sent, so it precedes every audio frame and every
\* response; when the connection is established but loading or sending the
\* configuration fails, none is sent and no relay task is started.
C17_ConfigBeforeRelay ==
    /\ n_config <= 1
    /\ RelayStarted <=> n_config = 1
    /\ SentAfterConfig => n_config = 1
    /\ rcv.msg = 0 /\ sts_sent # <<>> => sts_sent[1] = ConfigMessage
    /\ n_config = 0 => sts_sent = <<>>

\* a frame was forwarded to the agent after the configuration message
C17_ConfigThenAudio ==
    /\ n_config = 1
    /\ rcv.msg = 0
    /\ audio_sent # <<>>
    /\ sts_sent = <<ConfigMessage, BinaryMessage(audio_sent[1])>>

\* C18 as claimed: sts_receiver takes no agent message and sends nothing to the
\* telephony socket before a start event was received; every event it sends carries
\* the streamSid the handoff channel delivered; and every binary frame it takes has
\* produced exactly one media event, with the frame as payload, before the next
\* message is taken.
C18_MediaPerFrame ==
    /\ ag_count > 0 \/ twilio_sent # <<>> \/ rcv_pc \notin {"none", "wait_sid"}
          => sid_put # <<>> /\ rcv.streamsid = sid_put[1]
    /\ \A i \in 1..Len(twilio_sent) : twilio_sent[i].streamSid = rcv.streamsid
    /\ rcv.msg > 0 /\ rcv.message.kind = "binary"
          => twilio_sent = <<media_message(rcv.message.audio, sid_put[1])>>

\* C18 as amended: as claimed, except that a binary frame taken after the telephony
\* socket was disconnected or closed produces no media event.
C18_MediaPerFrameWhileConnected ==
    /\ ag_count > 0 \/ twilio_sent # <<>> \/ rcv_pc \notin {"none", "wait_sid"}
          => sid_put # <<>> /\ rcv.streamsid = sid_put[1]
    /\ \A i \in 1..Len(twilio_sent) : twilio_sent[i].streamSid = rcv.streamsid
    /\ rcv.msg > 0 /\ rcv.message.kind = "binary"
          => \/ twilio_sent = <<media_message(rcv.message.audio, sid_put[1])>>
             \/ twilio_sent = <<>> /\ twilio_state # "open"

\* the second agent message, a binary frame, was forwarded as one media event
C18_FrameForwarded ==
    /\ rcv.msg = 2
    /\ rcv.message = AgBinary(1)
    /\ twilio_sent = <<media_message(1, "MZ1")>>

IsOtherType(m) ==
    /\ m.kind = "text" /\ m.json_ok /\ m.has_type
    /\ m.type \notin {"UserStartedSpeaking", "FunctionCallRequest"}

\* C19: the step in which sts_receiver takes a well-formed control message of a type
\* other than UserStartedSpeaking and FunctionCallRequest sends nothing to either
\* socket, invokes no handler, leaves the booking store unchanged and ends at the
\* read loop.
C19_OtherTypesIgnored ==
    [][(rcv_pc = "recv" /\ ag_count' = ag_count + 1 /\ IsOtherType(rcv'.message))
       => (/\ twilio_sent' = <<>>
           /\ sts_sent' = <<>>
           /\ audio_sent' = audio_sent
           /\ n_config' = n_config
           /\ store' = store
           /\ calls' = calls
           /\ rcv_log' = <<<<"message", ag_count + 1, 0>>>>
           /\ rcv_pc' = "recv")]_vars

\* a ConversationText message was taken and the receiver is at its read loop
C19_ConversationTextTaken ==
    /\ rcv.msg > 0
    /\ rcv.message = AgText("ConversationText", <<>>)
    /\ rcv_pc = "recv"
    /\ twilio_sent = <<>>

(***************************************************************************)
(* SpecCalls: the session of a call that sends its start event, no audio,  *)
(* and stays connected, under every short sequence of agent messages.      *)
(* sts_sender has nothing to take from the audio queue in such a session.  *)
(***************************************************************************)
NextCalls ==
    \/ HmsConnectOk
    \/ \E why \in {"no_api_key", "connect_error", "config_error"} : HmsConnectFails(why)
    \/ HmsGatherRaises
    \/ HmsCloseTwilio
    \/ TwilioReceiveFails
    \/ RcvGetSid
    \/ RcvCall
    \/ DbCheck("session")
    \/ DbInsert("session")
    \/ RcvHandlerReturn
    \/ RcvRespond
    \/ RcvErrRespond
    \/ RcvStreamEnds
    \/ sid_put = <<>> /\ TwilioReceive(TwStart("MZ1"))
    \/ \E m \in CallMessages : ag_count < MaxCallMsgs /\ RcvMessage(m)
    \/ \E how \in {"peer_closed_ok", "peer_closed_err"} : AgentClose(how)

SpecCalls == Init /\ [][NextCalls]_vars

Responses == SelectSeq(sts_sent, LAMBDA x : x.type = "FunctionCallResponse")
LogCount(ev) == Len(SelectSeq(rcv_log, LAMBDA x : x[1] = ev))

\* C3: the entries of a request are handled in the order they appear: entry 1 right
\* after the message is taken, entry i+1 right after the response of entry i was sent
\* (so before the handler of entry i+1 is invoked); the j-th response sent carries the
\* id and name of entry j; and when sts_receiver is ready to take the next message no
\* entry is left dispatched and unanswered.
C3_EntriesInOrder ==
    /\ \A k \in 1..Len(rcv_log) :
          /\ rcv_log[k][1] = "entry" =>
                /\ k > 1
                /\ rcv_log[k - 1] = IF rcv_log[k][3] = 1 THEN <<"message", rcv.msg, 0>>
                                    ELSE <<"response", rcv.msg, rcv_log[k][3] - 1>>
          /\ rcv_log[k][1] = "invoke" =>
                k > 1 /\ rcv_log[k - 1] = <<"entry", rcv.msg, rcv_log[k][3]>>
    /\ Len(Responses) >= LogCount("response")
    /\ \A j \in 1..LogCount("response") :
          /\ Responses[j].id = rcv.functions[j].id
          /\ Responses[j].name = rcv.functions[j].name
    /\ rcv_pc = "recv" /\ rcv_log # <<>> =>
          rcv_log[Len(rcv_log)][1] \in {"message", "response", "error_response"}

\* the handler of the second entry is invoked after the first entry was answered
C3_SecondEntryInvoked ==
    /\ rcv_pc = "handler"
    /\ rcv.idx = 2
    /\ Len(Responses) = 1
    /\ Responses[1].id = "f1"

WellFormed(e) == e.has_name /\ e.has_id /\ e.has_arguments
Answered(e) == \E j \in 1..Len(Responses) : Responses[j].id = e.id
IsRequest(m) ==
    m.kind = "text" /\ m.json_ok /\ m.has_type /\ m.type = "FunctionCallRequest"
        /\ m.has_functions

\* C4: while the agent connection is open, a request never ends sts_receiver, and once
\* the request is handled every entry of it that has a name, an id and arguments
\* has been answered with a response carrying its id, the entries after a failing
\* entry included.
C4_EveryEntryAnswered ==
    rcv.msg > 0 /\ IsRequest(rcv.message) /\ sts_state = "open" =>
        /\ rcv_pc # "failed"
        /\ rcv_pc = "recv" =>
              \A i \in 1..Len(rcv.message.functions) :
                  WellFormed(rcv.message.functions[i]) => Answered(rcv.message.functions[i])

\* C5: dispatching an entry whose name is no key of FUNCTION_MAP does not raise and
\* gives the error object {"error": "unknown function: <name>"}; no handler is
\* invoked and the booking store is not touched.
C5_UnknownFunction ==
    [][(/\ rcv_pc = "call"
        /\ rcv_pc' # "call"
        /\ WellFormed(rcv.functions[rcv.idx])
        /\ rcv.functions[rcv.idx].args_ok
        /\ rcv.functions[rcv.idx].name \notin FUNCTION_MAP)
       => (/\ rcv_pc' = "respond"
           /\ rcv'.result =
                 [error |-> Msg("unknown function: {}", <<rcv.functions[rcv.idx].name>>)]
           /\ store' = store
           /\ calls' = calls
           /\ rcv_log' = Append(rcv_log, <<"entry", rcv.msg, rcv.idx>>))]_vars

\* an unknown name was dispatched and its error object is about to be sent
C5_UnknownDispatched ==
    /\ rcv_pc = "respond"
    /\ rcv.func_name = "no_such_function"
    /\ rcv.result = [error |-> Msg("unknown function: {}", <<"no_such_function">>)]

\* the id and name create_function_call_response is to carry for a failing entry
FailedId(e) == IF e.has_id THEN e.id ELSE "unknown"
FailedName(e) == IF e.has_name THEN e.name ELSE "unknown"

\* C20: within one request no two responses carry the same id, and the error
\* response sent for a failing entry carries that entry's id and name ("unknown" for
\* a field the entry lacks), never those of an earlier entry.
C20_ErrorNamesFailingEntry ==
    /\ \A j, k \in 1..Len(Responses) : Responses[j].id = Responses[k].id => j = k
    /\ rcv_log # <<>> /\ rcv_log[Len(rcv_log)][1] = "error_response"
         /\ rcv_log[Len(rcv_log)][3] >= 1
         => LET e == rcv.functions[rcv_log[Len(rcv_log)][3]]
                r == Responses[Len(Responses)]
            IN  r.id = FailedId(e) /\ r.name = FailedName(e)

(***************************************************************************)
(* SpecBooking: two processes (two server workers, or the script of        *)
(* test_meeting.py beside a server) call the booking tools on one store.   *)
(***************************************************************************)
Times == {T_1000, T_900, T_NotADate, T_Feb30}
Customers == {"John Doe", "Jane Doe"}

NextBooking ==
    \/ \E p \in Procs, name \in Customers, t \in Times :
           proc_calls < MaxProcCalls /\ ProcCall(p, "book_meeting", name, t)
    \/ \E p \in Procs, t \in Times :
           proc_calls < MaxProcCalls /\ ProcCall(p, "check_availability", "", t)
    \/ \E p \in Procs : DbCheck(p)
    \/ \E p \in Procs : DbInsert(p)
    \/ \E p \in Procs : ProcReturn(p)

SpecBooking == Init /\ [][NextBooking]_vars

Booked(c) == calls[c].pc = "ret" /\ calls[c].fn = "book_meeting"
\* no booking of the call's time existed when the call began (rows are only appended)
FreeAtEntry(c) ==
    \A i \in 1..calls[c].rows_at_entry : store[i].booking_time # calls[c].booking_time
IsSuccess(r) == "booking_id" \in DOMAIN r /\ r.success
IsSlotFailure(r, t) == r = SlotTaken(t) \/ r = SlotAlreadyBooked

\* C6: the store never holds two rows with the same booking time; and of two
\* book_meeting calls with the same well-formed time that both began while the slot
\* was free, whatever the interleaving of their checks and inserts, exactly one
\* returns success with a booking id and the other a slot-already-booked failure.
C6_BookingUniqueness ==
    /\ \A i, j \in 1..Len(store) : store[i].booking_time = store[j].booking_time => i = j
    /\ \A p, q \in Procs :
          (/\ p # q
           /\ Booked(p) /\ Booked(q)
           /\ calls[p].booking_time = calls[q].booking_time
           /\ StrptimeOk(calls[p].booking_time)
           /\ FreeAtEntry(p) /\ FreeAtEntry(q))
          => \/ IsSuccess(calls[p].result)
                /\ IsSlotFailure(calls[q].result, calls[q].booking_time)
             \/ IsSuccess(calls[q].result)
                /\ IsSlotFailure(calls[p].result, calls[p].booking_time)

\* both calls passed the availability check before either inserted
C6_Race ==
    \E p, q \in Procs :
        /\ p # q
        /\ Booked(p) /\ Booked(q)
        /\ calls[p].ops = <<"check", "insert">> /\ calls[q].ops = <<"check", "insert">>
        /\ IsSuccess(calls[p].result)
        /\ calls[q].result = SlotAlreadyBooked

\* C7 as claimed: a book_meeting for a well-formed time that was already booked when
\* the call began returns {"success": false, "message": "Slot already booked."} and
\* adds no record.
C7_SecondBookingRefused ==
    \A q \in Procs :
        Booked(q) /\ StrptimeOk(calls[q].booking_time) /\ ~FreeAtEntry(q)
        => calls[q].result = SlotAlreadyBooked /\ calls[q].ops = <<"check">>

\* C7 as amended: a book_meeting for a well-formed time that was free when the call
\* began returns success with the id of the row it added, unless another call booked
\* the time meanwhile; a book_meeting for a time already booked when the call began
\* returns {"error": "Slot <t> is already booked."} after the existence check alone,
\* so it adds no record.
C7_SecondBookingSlotTaken ==
    \A q \in Procs :
        Booked(q) /\ StrptimeOk(calls[q].booking_time) =>
            IF FreeAtEntry(q)
            THEN \/ /\ IsSuccess(calls[q].result)
                    /\ calls[q].result.booking_id > calls[q].rows_at_entry
                    /\ calls[q].result.booking_id <= Len(store)
                    /\ store[calls[q].result.booking_id].customer_name = calls[q].customer_name
                    /\ store[calls[q].result.booking_id].booking_time = calls[q].booking_time
                 \/ /\ IsSlotFailure(calls[q].result, calls[q].booking_time)
                    /\ \E i \in (calls[q].rows_at_entry + 1)..Len(store) :
                          store[i].booking_time = calls[q].booking_time
            ELSE calls[q].result = SlotTaken(calls[q].booking_time)
                 /\ calls[q].ops = <<"check">>

\* John Doe holds the slot and Jane Doe's later booking of it was refused
C7_DoubleBooking ==
    \E q \in Procs :
        /\ Booked(q)
        /\ calls[q].customer_name = "Jane Doe"
        /\ calls[q].result = SlotTaken(T_1000)
        /\ Len(store) = 1
        /\ store[1].customer_name = "John Doe"
        /\ calls[q].rows_at_entry = 1

\* the shape YYYY-MM-DD HH:MM: four, two and two digits, a blank, two and two digits
MatchesFormat(t) ==
    /\ Len(t) = 16
    /\ \A i \in {1, 2, 3, 4, 6, 7, 9, 10, 12, 13, 15, 16} : t[i] \in Digits
    /\ t[5] = "-" /\ t[8] = "-" /\ t[11] = " " /\ t[14] = ":"

\* C8: a book_meeting or check_availability call whose time string does not have
\* the format YYYY-MM-DD HH:MM returns the format error and performs no store
\* operation, neither the existence check nor the insert.
C8_MalformedNeverReachesStore ==
    \A c \in Procs :
        calls[c].pc # "idle" /\ ~MatchesFormat(calls[c].booking_time)
        => /\ calls[c].ops = <<>>
           /\ calls[c].pc = "ret"
           /\ calls[c].result = FormatError

Checked(c) == calls[c].pc = "ret" /\ calls[c].fn = "check_availability"
BookedNow(t) == \E i \in 1..Len(store) : store[i].booking_time = t

\* C14: a check_availability call with a well-formed time returns available = true
\* while no booking of the time exists and available = false once a booking of it
\* existed when the call began.  With bookings made during the call, true means the
\* time was free when the call began and false that it is booked now.  Rows of the
\* store are never removed or changed, so a booked time stays unavailable, and no
\* step of a check_availability call changes the store.
C14_AvailabilityFollowsStore ==
    /\ [](\A c \in Procs :
            Checked(c) /\ StrptimeOk(calls[c].booking_time) =>
                LET t == calls[c].booking_time IN
                /\ calls[c].ops = <<"check">>
                /\ calls[c].result \in {Availability(t, TRUE), Availability(t, FALSE)}
                /\ ~BookedNow(t) => calls[c].result = Availability(t, TRUE)
                /\ ~FreeAtEntry(c) => calls[c].result = Availability(t, FALSE)
                /\ calls[c].result = Availability(t, TRUE) => FreeAtEntry(c)
                /\ calls[c].result = Availability(t, FALSE) => BookedNow(t))
    /\ [][/\ Len(store') >= Len(store)
          /\ SubSeq(store', 1, Len(store)) = store
          /\ \A c \in Procs :
                calls[c].fn = "check_availability" /\ calls'[c] # calls[c] /\ calls[c].pc # "ret"
                => store' = store]_vars

\* the slot was free before the booking and is reported taken after it
C14_TakenAfterBooking ==
    \E c \in Procs :
        /\ Checked(c)
        /\ calls[c].result = Availability(T_1000, FALSE)
        /\ calls[c].rows_at_entry = 1
        /\ store[1].booking_time = T_1000

====
